---- MODULE Spec2Model ----
(***************************************************************************)
(* check_media_integrity.py: read-only media integrity checker.            *)
(*                                                                         *)
(* The model follows the source: run() classifies one external process,    *)
(* check_fast / check_decode_first_frame / check_full_decode reduce the    *)
(* outcome of run() to (ok, diagnostic), audit_one combines them per mode  *)
(* inside a try/except, and main() submits one audit_one per file to a     *)
(* ThreadPoolExecutor and tallies the results in the main thread.          *)
(*                                                                         *)
(* Text is a sequence of one-character strings.  FileResult.duration_ms is *)
(* wall-clock time and is left out.                                        *)
(***************************************************************************)
EXTENDS Integers, Sequences, FiniteSets, TLC

\* ------------------------------------------------------------- bounds
MaxFiles == 2
MaxWorkers == 2

\* ------------------------------------------------------------- state
VARIABLES
  mode,          \* args.mode
  workers,       \* args.workers
  include_exts,  \* args.include_exts
  HAS_FFPROBE, HAS_FFMPEG, HAS_EXIFTOOL,
  list_damaged,  \* args.list_damaged
  all_files,     \* iter_files(root): the suffix of each discovered path
  condition,     \* per file: what the tools do with it (see ProcessMay)
  pc,            \* where main() is
  submitted,     \* how many files the submission loop has submitted
  queue,         \* the executor's work queue (FIFO)
  task,          \* per file: where its audit_one call is, and its locals
  future,        \* per file: the future of its audit_one call
  completed,     \* the futures finished and not yet yielded, in finishing order
  snapshot,      \* as_completed: those it found finished when it was entered
  yielded,       \* the futures as_completed has yielded so far
  checked, ok_count, bad_count, damaged_list,
  term,          \* the terminal line: "clean" or "partial" (no newline yet)
  summary,       \* the printed summary line, NoSummary before
  listing,       \* the [DAMAGED] lines printed after the summary
  trace,         \* per file: the run() calls of its audit, in order
  evaluated,     \* per file: the evaluators its audit has called, in order
  audited,       \* per file: how many times audit_one was entered for it
  faulted        \* the files whose audit_one raised inside its try block

\* ------------------------------------------------------------- text
Whitespace == {" ", "\n"}

RECURSIVE lstrip(_)
lstrip(s) ==
  IF s # <<>> /\ Head(s) \in Whitespace THEN lstrip(Tail(s)) ELSE s

RECURSIVE rstrip(_)
rstrip(s) ==
  IF s # <<>> /\ s[Len(s)] \in Whitespace
    THEN rstrip(SubSeq(s, 1, Len(s) - 1))
    ELSE s

\* str.strip()
strip(s) == rstrip(lstrip(s))

\* sub in s
Contains(s, sub) ==
  \E i \in 0..(Len(s) - Len(sub)) : SubSeq(s, i + 1, i + Len(sub)) = sub

ErrorToken == <<"E", "r", "r", "o", "r">>

\* Bytes a tool writes: ASCII bytes stand for themselves, "0xFF" is a byte
\* that is invalid in UTF-8 and in GBK/CP936.
InvalidByte == "0xFF"

\* _decode: UTF-8 first; the fallbacks end in Latin-1, which maps every byte
\* to the code point of the same value and cannot fail.
_decode(buf) ==
  IF \A i \in DOMAIN buf : buf[i] # InvalidByte
    THEN buf
    ELSE [i \in DOMAIN buf |-> IF buf[i] = InvalidByte THEN "U+00FF" ELSE buf[i]]

\* ------------------------------------------------------------- run()
TimeoutText == <<"T", "i", "m", "e", "o", "u", "t", ":">>
ExceptionText == <<"E", "x", "c", "e", "p", "t", "i", "o", "n", ":">>

\* What the external process does: it exits with a return code and its two
\* captured streams, it is still running when the timeout expires
\* (subprocess.TimeoutExpired), or it cannot be launched (OSError).
Exit(rc, o, e) == [kind |-> "exit", rc |-> rc, stdout |-> o, stderr |-> e]
TimedOut == [kind |-> "timeout", rc |-> 0, stdout |-> <<>>, stderr |-> <<>>]
LaunchFails == [kind |-> "oserror", rc |-> 0, stdout |-> <<>>, stderr |-> <<>>]

\* run() whose timeout branch reports an ordinary clean exit
run_timeout_swallowed(beh) ==
  CASE beh.kind = "exit" ->
         [rc |-> beh.rc, out |-> _decode(beh.stdout), err |-> _decode(beh.stderr)]
    [] beh.kind = "timeout" ->
         [rc |-> 0, out |-> <<>>, err |-> <<>>]
    [] OTHER ->
         [rc |-> 125, out |-> <<>>, err |-> ExceptionText]

\* run() whose except clause reports a failed launch as an empty clean exit
run_launch_swallowed(beh) ==
  CASE beh.kind = "exit" ->
         [rc |-> beh.rc, out |-> _decode(beh.stdout), err |-> _decode(beh.stderr)]
    [] beh.kind = "timeout" ->
         [rc |-> 124, out |-> <<>>, err |-> TimeoutText]
    [] OTHER ->
         [rc |-> 0, out |-> <<>>, err |-> <<>>]

run(beh) ==
  CASE beh.kind = "exit" ->
         [rc |-> beh.rc, out |-> _decode(beh.stdout), err |-> _decode(beh.stderr)]
    [] beh.kind = "timeout" ->
         [rc |-> 124, out |-> <<>>, err |-> TimeoutText]
    [] OTHER ->
         [rc |-> 125, out |-> <<>>, err |-> ExceptionText]

\* ------------------------------------------------------------- file types
DEFAULT_IMAGE_EXTS ==
  {".jpg", ".jpeg", ".png", ".gif", ".bmp", ".tif", ".tiff", ".webp", ".heic",
   ".heif", ".dng", ".cr2", ".cr3", ".nef", ".arw", ".raf", ".rw2", ".orf"}

DEFAULT_VIDEO_EXTS ==
  {".mp4", ".m4v", ".mov", ".avi", ".mkv", ".webm", ".wmv", ".flv", ".mts",
   ".m2ts", ".ts", ".3gp", ".3gpp", ".mxf", ".mpg", ".mpeg", ".vob"}

\* str.lower() on the suffixes of the model
lower(sfx) ==
  CASE sfx = ".JPG" -> ".jpg"
    [] sfx = ".MP4" -> ".mp4"
    [] OTHER -> sfx

is_image(path, exts) == lower(path) \in exts
\* is_video that keeps the built-in video suffixes beside a custom set
is_video_builtin(path, exts) == lower(path) \in (exts \cup DEFAULT_VIDEO_EXTS)
is_video(path, exts) == lower(path) \in exts

\* The suffixes of the discovered paths, and the --include-exts arguments.
Suffixes == {".JPG", ".mp4", ".txt"}
NoIncludeExts == {}
IncludeExtsArgs == {NoIncludeExts, {"TXT"}}

\* main, lines 290-296: an entry without a leading dot gets one, all are
\* lower-cased; both sets are the custom set when --include-exts is given.
NormExt(e) ==
  CASE e = "TXT" -> ".txt"
    [] OTHER -> lower(e)

ImageExts(arg) == IF arg # {} THEN {NormExt(e) : e \in arg} ELSE DEFAULT_IMAGE_EXTS
VideoExts(arg) == IF arg # {} THEN {NormExt(e) : e \in arg} ELSE DEFAULT_VIDEO_EXTS

\* ------------------------------------------------------------- evaluators
Modes == {"fast", "medium", "slow"}

FAST_BASIS == "fast"
MEDIUM_BASIS == "medium"
SLOW_BASIS == "slow"

\* One part of a diagnostic string; shows names the values the text contains.
Diag(tool, shows, rc, err_len, token) ==
  [tool |-> tool, shows |-> shows, rc |-> rc, err_len |-> err_len,
   has_error_token |-> token]

Unavailable(tool) == Diag(tool, {"unavailable"}, 0, 0, FALSE)

\* ffprobe_ok without the strip: any byte on stderr fails the probe
ffprobe_ok_nostrip(r) == r.rc = 0 /\ r.err = <<>>
\* check_fast, lines 160-162
ffprobe_ok(r) == r.rc = 0 /\ strip(r.err) = <<>>
ffprobe_diag(r) == Diag("ffprobe", {"rc", "err_len"}, r.rc, Len(strip(r.err)), FALSE)

\* check_fast, lines 169-171
exif_ok(r) == r.rc = 0 /\ (~Contains(r.out, ErrorToken) /\ strip(r.err) = <<>>)
exif_diag(r) ==
  Diag("exiftool", {"rc", "has_error_token"}, r.rc, 0, Contains(r.out, ErrorToken))

\* any(ok_flags) if ok_flags else False
any(flags) == \E i \in DOMAIN flags : flags[i]
\* a probe that fails whenever another audit is in progress at the same
\* time (the audits clash over something they share)
check_fast_ok_exclusive(ok_flags) ==
  any(ok_flags) /\ Cardinality({g \in DOMAIN task : task[g].st \notin {"new", "queued", "done"}}) <= 1
\* all() in place of any(): true of an empty list
check_fast_ok_all(ok_flags) == \A i \in DOMAIN ok_flags : ok_flags[i]
check_fast_ok(ok_flags) == IF ok_flags # <<>> THEN any(ok_flags) ELSE FALSE

\* check_decode_first_frame / check_full_decode, lines 191-192 and 204-205
decode_ok(r) == r.rc = 0 /\ strip(r.err) = <<>>
decode_diag(label, r) == Diag(label, {"rc", "err_len"}, r.rc, Len(strip(r.err)), FALSE)

\* ------------------------------------------------------------- FileResult
Reason(basis, text, fast, first, full) ==
  [basis |-> basis, text |-> text, fast |-> fast, first_frame |-> first,
   full |-> full]

FileResult(path, ok, status, reason, m) ==
  [path |-> path, ok |-> ok, status |-> status, reason |-> reason, mode |-> m]

\* audit_one, line 213
SkippedResult(path, m) ==
  FileResult(path, TRUE, "skipped",
             Reason("", "unsupported extension", <<>>, <<>>, <<>>), m)

\* audit_one, lines 217-220
FastResult(path, ok_fast, why_fast, m) ==
  FileResult(path, ok_fast, IF ok_fast THEN "ok" ELSE "damaged",
             Reason(FAST_BASIS, "", why_fast, <<>>, <<>>), m)

\* the alternative the comment on line 225 names: ok_fast or ok_first
MediumResultOr(path, ok_fast, why_fast, ok_first, why_first, m) ==
  LET ok == ok_fast \/ ok_first
  IN  FileResult(path, ok, IF ok THEN "ok" ELSE "damaged",
                 Reason(MEDIUM_BASIS, "", why_fast, why_first, <<>>), m)

\* audit_one, lines 224-229
MediumResult(path, ok_fast, why_fast, ok_first, why_first, m) ==
  LET ok == ok_fast /\ ok_first
  IN  FileResult(path, ok, IF ok THEN "ok" ELSE "damaged",
                 Reason(MEDIUM_BASIS, "", why_fast, why_first, <<>>), m)

\* slow as a monotonic AND over the three evaluators
SlowResultAnd(path, ok_fast, why_fast, ok_first, why_first, ok_full, why_full, m) ==
  LET ok == ok_fast /\ ok_first /\ ok_full
  IN  FileResult(path, ok, IF ok THEN "ok" ELSE "damaged",
                 Reason(SLOW_BASIS, "", why_fast, why_first, why_full), m)

\* audit_one, lines 232-237
SlowResult(path, ok_fast, why_fast, ok_first, why_first, ok_full, why_full, m) ==
  LET ok == ok_full
  IN  FileResult(path, ok, IF ok THEN "ok" ELSE "damaged",
                 Reason(SLOW_BASIS, "", why_fast, why_first, why_full), m)

\* an error result that carries the default mode, not the mode of the run
ErrorResultDefaultMode(path, m) ==
  FileResult(path, FALSE, "error", Reason("", "Exception", <<>>, <<>>, <<>>),
             "medium")

\* audit_one, lines 239-240
ErrorResult(path, m) ==
  FileResult(path, FALSE, "error", Reason("", "Exception", <<>>, <<>>, <<>>), m)

\* ------------------------------------------------------------- state tuples
cfgvars == <<mode, workers, include_exts, list_damaged, HAS_FFPROBE, HAS_FFMPEG,
             HAS_EXIFTOOL, all_files, condition>>
tally == <<checked, ok_count, bad_count, damaged_list>>
\* what only the main thread writes
mainvars == <<pc, submitted, snapshot, yielded, tally, term, summary, listing>>
ghost == <<trace, evaluated, audited, faulted>>
vars == <<cfgvars, pc, submitted, queue, task, future, completed, snapshot,
          yielded, tally, term, summary, listing, ghost>>

total == Len(all_files)
Files == 1..total
image_exts == ImageExts(include_exts)
video_exts == VideoExts(include_exts)

NoSummary == [printed |-> FALSE, total |-> 0, ok |-> 0, bad |-> 0]
NoResult == FileResult(0, FALSE, "", Reason("", "", <<>>, <<>>, <<>>), "")

\* A future: pending or running until done; then it holds the result of
\* audit_one, or the exception audit_one raised.
PendingFuture == [done |-> FALSE, raised |-> FALSE, result |-> NoResult]
Returned(res) == [done |-> TRUE, raised |-> FALSE, result |-> res]
Raised == [done |-> TRUE, raised |-> TRUE, result |-> NoResult]

\* The locals of one audit_one call.
Locals(st, ok_flags, diagnostics, ok_fast, why_fast, ok_first, why_first) ==
  [st |-> st, ok_flags |-> ok_flags, diagnostics |-> diagnostics,
   ok_fast |-> ok_fast, why_fast |-> why_fast,
   ok_first |-> ok_first, why_first |-> why_first]

NewTask(st) == Locals(st, <<>>, <<>>, FALSE, <<>>, FALSE, <<>>)

RunningStates == {"ffprobe", "exiftool", "first_frame", "full_decode"}
\* a pool whose workers are not released when their audit returns
RunningNeverReleased == {f \in Files : task[f].st \in RunningStates \cup {"done"}}
\* a pool that starts a thread for every submitted call
RunningUncounted == {}
Running == {f \in Files : task[f].st \in RunningStates}

\* One run() call as the trace records it.
Call(tool, beh) == [tool |-> tool, beh |-> beh, ret |-> run(beh)]

TypeOK ==
  /\ mode \in Modes
  /\ workers \in 1..(MaxWorkers + 1)
  /\ pc \in {"start", "submit", "as_completed", "collect", "done", "nofiles",
            "crashed", "aborted"}
  /\ snapshot \subseteq Files
  /\ submitted \in 0..total
  /\ yielded \subseteq Files
  /\ term \in {"clean", "partial"}

\* ------------------------------------------------------------- Init
\* The state when main() has parsed its arguments and listed the files.
InitWith(modes, n_files, n_workers, ext_args, flags, tools, kinds) ==
  /\ mode \in modes
  /\ workers \in n_workers
  /\ include_exts \in ext_args
  /\ list_damaged \in flags
  /\ \E has \in tools :
       /\ HAS_FFPROBE = has[1]
       /\ HAS_FFMPEG = has[2]
       /\ HAS_EXIFTOOL = has[3]
  /\ \E n \in n_files : \E k \in [1..n -> kinds] :
       /\ all_files = [f \in 1..n |-> k[f].suffix]
       /\ condition = [f \in 1..n |-> k[f].condition]
  /\ pc = "start"
  /\ submitted = 0
  /\ queue = <<>>
  /\ task = [f \in 1..Len(all_files) |-> NewTask("new")]
  /\ future = [f \in 1..Len(all_files) |-> PendingFuture]
  /\ completed = <<>>
  /\ snapshot = {}
  /\ yielded = {}
  /\ checked = 0
  /\ ok_count = 0
  /\ bad_count = 0
  /\ damaged_list = <<>>
  /\ term = "clean"
  /\ summary = NoSummary
  /\ listing = <<>>
  /\ trace = [f \in 1..Len(all_files) |-> <<>>]
  /\ evaluated = [f \in 1..Len(all_files) |-> <<>>]
  /\ audited = [f \in 1..Len(all_files) |-> 0]
  /\ faulted = {}

\* ------------------------------------------------------------- processes
\* The external processes of one audit.
Processes == {"ffprobe", "exiftool", "ffmpeg[first-frame]", "ffmpeg[full-decode]"}

\* Everything a process may do.  stdout is read only from exiftool, so it
\* varies only there.
StderrBytes == {<<>>, <<"\n">>, <<"e">>, <<InvalidByte>>}
StdoutBytes == {<<>>, <<"o", "k">>, ErrorToken}
ExitCodes == {0, 1}

Behaviours ==
  [t \in Processes |->
     {Exit(rc, o, e) : rc \in ExitCodes,
                       o \in IF t = "exiftool" THEN StdoutBytes ELSE {<<>>},
                       e \in StderrBytes}
       \cup {TimedOut, LaunchFails}]

\* What the tools do with a file is fixed by the file: every tool exits
\* cleanly on an intact file and fails on a corrupt one; of a file in
\* condition "any" nothing is known, and each process may do anything.
CleanExit == Exit(0, <<>>, <<>>)
FailedExit == Exit(1, <<>>, <<"e">>)

ProcessMay(f, t) ==
  CASE condition[f] = "intact" -> {CleanExit}
    [] condition[f] = "corrupt" -> {FailedExit}
    [] OTHER -> Behaviours[t]

\* ------------------------------------------------------------- audit_one
\* audit_one returns res: its worker sets the result on the future, which is
\* finished from then on.
Return(f, res) ==
  /\ task' = [task EXCEPT ![f] = NewTask("done")]
  /\ future' = [future EXCEPT ![f] = Returned(res)]
  /\ completed' = Append(completed, f)

\* audit_one without its except clause: the exception ends the call
audit_one_no_except(path, m) == Raised
\* except Exception as e: return FileResult(path, False, 'error', ...)
audit_one_except(path, m) == Returned(ErrorResult(path, m))

\* A worker thread takes the next work item and enters audit_one: an
\* unsupported suffix returns at once (lines 211-213).
StartAudit(f) ==
  /\ queue # <<>>
  /\ f = Head(queue)
  /\ Cardinality(Running) < workers
  /\ queue' = Tail(queue)
  /\ IF ~(is_image(all_files[f], image_exts) \/ is_video(all_files[f], video_exts))
       THEN Return(f, SkippedResult(f, mode))
       ELSE /\ task' = [task EXCEPT ![f] = NewTask("ffprobe")]
            /\ UNCHANGED <<future, completed>>
  /\ audited' = [audited EXCEPT ![f] = @ + 1]
  /\ UNCHANGED <<cfgvars, mainvars, trace, evaluated, faulted>>

\* check_fast, lines 150-164: the ffprobe part.
check_fast_ffprobe(f) ==
  /\ task[f].st = "ffprobe"
  /\ IF HAS_FFPROBE
       THEN \E beh \in ProcessMay(f, "ffprobe") :
              LET r == run(beh)
              IN  /\ task' = [task EXCEPT ![f] =
                        Locals("exiftool", <<ffprobe_ok(r)>>, <<ffprobe_diag(r)>>,
                               FALSE, <<>>, FALSE, <<>>)]
                  /\ trace' = [trace EXCEPT ![f] = Append(@, Call("ffprobe", beh))]
       ELSE /\ task' = [task EXCEPT ![f] =
                  Locals("exiftool", <<>>, <<Unavailable("ffprobe")>>,
                         FALSE, <<>>, FALSE, <<>>)]
            /\ UNCHANGED trace
  /\ evaluated' = [evaluated EXCEPT ![f] = Append(@, "check_fast")]
  /\ UNCHANGED <<cfgvars, mainvars, queue, future, completed, audited, faulted>>

\* check_fast that returns to audit_one, which stops at a failed probe
AfterFastShortCircuit(f, ok_flags, diagnostics) ==
  LET ok == IF ok_flags # <<>> THEN \E i \in DOMAIN ok_flags : ok_flags[i] ELSE FALSE
  IN  IF mode = "fast" \/ ~ok
        THEN /\ task' = [task EXCEPT ![f] = NewTask("done")]
             /\ future' = [future EXCEPT ![f] =
                   Returned(FastResult(f, ok, diagnostics, mode))]
             /\ completed' = Append(completed, f)
        ELSE /\ task' = [task EXCEPT ![f] =
                   Locals("first_frame", <<>>, <<>>, ok, diagnostics, FALSE, <<>>)]
             /\ UNCHANGED <<future, completed>>

\* check_fast, lines 166-178, and audit_one, lines 216-220.
AfterFast(f, ok_flags, diagnostics) ==
  LET ok == check_fast_ok(ok_flags)
      reason == diagnostics
  IN  IF mode = "fast"
        THEN Return(f, FastResult(f, ok, reason, mode))
        ELSE /\ task' = [task EXCEPT ![f] =
                   Locals("first_frame", <<>>, <<>>, ok, reason, FALSE, <<>>)]
             /\ UNCHANGED <<future, completed>>

check_fast_exiftool(f) ==
  /\ task[f].st = "exiftool"
  /\ IF HAS_EXIFTOOL
       THEN \E beh \in ProcessMay(f, "exiftool") :
              LET r == run(beh)
              IN  /\ AfterFast(f, Append(task[f].ok_flags, exif_ok(r)),
                               Append(task[f].diagnostics, exif_diag(r)))
                  /\ trace' = [trace EXCEPT ![f] = Append(@, Call("exiftool", beh))]
       ELSE /\ AfterFast(f, task[f].ok_flags,
                         Append(task[f].diagnostics, Unavailable("exiftool")))
            /\ UNCHANGED trace
  /\ UNCHANGED <<cfgvars, mainvars, queue, evaluated, audited, faulted>>

\* audit_one that gives up once the first-frame decode has timed out
AfterFirstFrameStopsAtTimeout(f, ok_first, why_first) ==
  IF mode = "medium" \/ why_first[1].rc = 124
    THEN /\ task' = [task EXCEPT ![f] = NewTask("done")]
         /\ future' = [future EXCEPT ![f] =
               Returned(MediumResult(f, task[f].ok_fast, task[f].why_fast,
                                     ok_first, why_first, mode))]
         /\ completed' = Append(completed, f)
    ELSE /\ task' = [task EXCEPT ![f] =
               Locals("full_decode", <<>>, <<>>, task[f].ok_fast,
                      task[f].why_fast, ok_first, why_first)]
         /\ UNCHANGED <<future, completed>>

\* check_decode_first_frame, lines 181-192, and audit_one, lines 223-229.
AfterFirstFrame(f, ok_first, why_first) ==
  IF mode = "medium"
    THEN Return(f, MediumResult(f, task[f].ok_fast, task[f].why_fast,
                                ok_first, why_first, mode))
    ELSE /\ task' = [task EXCEPT ![f] =
               Locals("full_decode", <<>>, <<>>, task[f].ok_fast,
                      task[f].why_fast, ok_first, why_first)]
         /\ UNCHANGED <<future, completed>>

check_decode_first_frame(f) ==
  /\ task[f].st = "first_frame"
  /\ IF ~HAS_FFMPEG
       THEN /\ AfterFirstFrame(f, FALSE, <<Unavailable("ffmpeg")>>)
            /\ UNCHANGED trace
       ELSE \E beh \in ProcessMay(f, "ffmpeg[first-frame]") :
              LET r == run(beh)
              IN  /\ AfterFirstFrame(f, decode_ok(r),
                                     <<decode_diag("ffmpeg[first-frame]", r)>>)
                  /\ trace' = [trace EXCEPT ![f] =
                        Append(@, Call("ffmpeg[first-frame]", beh))]
  /\ evaluated' = [evaluated EXCEPT ![f] = Append(@, "check_decode_first_frame")]
  /\ UNCHANGED <<cfgvars, mainvars, queue, audited, faulted>>

\* check_full_decode, lines 195-205, and audit_one, lines 232-237.
AfterFullDecode(f, ok_full, why_full) ==
  Return(f, SlowResult(f, task[f].ok_fast, task[f].why_fast, task[f].ok_first,
                       task[f].why_first, ok_full, why_full, mode))

check_full_decode(f) ==
  /\ task[f].st = "full_decode"
  /\ IF ~HAS_FFMPEG
       THEN /\ AfterFullDecode(f, FALSE, <<Unavailable("ffmpeg")>>)
            /\ UNCHANGED trace
       ELSE \E beh \in ProcessMay(f, "ffmpeg[full-decode]") :
              LET r == run(beh)
              IN  /\ AfterFullDecode(f, decode_ok(r),
                                     <<decode_diag("ffmpeg[full-decode]", r)>>)
                  /\ trace' = [trace EXCEPT ![f] =
                        Append(@, Call("ffmpeg[full-decode]", beh))]
  /\ evaluated' = [evaluated EXCEPT ![f] = Append(@, "check_full_decode")]
  /\ UNCHANGED <<cfgvars, mainvars, queue, audited, faulted>>

\* An exception raised anywhere inside the try block of audit_one (for
\* example MemoryError) while the audit is at one of its evaluators.
Fault(f) ==
  /\ task[f].st \in RunningStates
  /\ task' = [task EXCEPT ![f] = NewTask("done")]
  /\ future' = [future EXCEPT ![f] = audit_one_except(f, mode)]
  /\ completed' = Append(completed, f)
  /\ faulted' = faulted \cup {f}
  /\ UNCHANGED <<cfgvars, mainvars, queue, trace, evaluated, audited>>

\* ------------------------------------------------------------- main
\* main, lines 299-313: no file, no run; otherwise the counters start at 0
\* and the pool is opened.
Start ==
  /\ pc = "start"
  /\ pc' = IF total = 0 THEN "nofiles" ELSE "submit"
  /\ checked' = 0
  /\ ok_count' = 0
  /\ bad_count' = 0
  /\ damaged_list' = <<>>
  /\ UNCHANGED <<cfgvars, submitted, queue, task, future, completed, snapshot,
                 yielded, term, summary, listing, ghost>>

\* main, lines 315-317: ex.submit for the next path; after the last one
\* main enters the try block and calls as_completed.
Submit ==
  /\ pc = "submit"
  /\ submitted < total
  /\ LET f == submitted + 1
     IN  /\ queue' = Append(queue, f)
         /\ task' = [task EXCEPT ![f] = NewTask("queued")]
         /\ submitted' = f
         /\ pc' = IF f = total THEN "as_completed" ELSE "submit"
  /\ UNCHANGED <<cfgvars, future, completed, snapshot, yielded, tally, term,
                 summary, listing, ghost>>

\* main, line 320: as_completed(future_map) is entered; it notes which
\* futures are finished already and waits for the others.
as_completed ==
  /\ pc = "as_completed"
  /\ snapshot' = {completed[i] : i \in DOMAIN completed}
  /\ pc' = "collect"
  /\ UNCHANGED <<cfgvars, submitted, queue, task, future, completed, yielded,
                 tally, term, summary, listing, ghost>>

\* The futures as_completed may yield next: those that were finished when it
\* was entered come first, in no particular order (it keeps them in a set);
\* the others follow in the order they finish.
NextYield ==
  IF snapshot # {}
    THEN snapshot
    ELSE {completed[i] : i \in {1} \cap DOMAIN completed}

Without(seq, f) == SelectSeq(seq, LAMBDA g : g # f)

\* the first branch without its skipped case
CountsOkNoSkipped(res) == res.status = "ok"
\* main, lines 324-328
CountsOk(res) == res.status = "ok" \/ (res.ok /\ res.status = "skipped")
\* the second branch without 'error'
CountsBadNoError(res) == ~CountsOk(res) /\ res.status = "damaged"
CountsBad(res) == ~CountsOk(res) /\ res.status \in {"damaged", "error"}

\* a collection loop without its finally clause
no_finally(t) == t
\* main, lines 331-332: finally: print()
finally_newline(t) == "clean"

\* main, lines 320-332: one iteration of the as_completed loop.  A future
\* that holds an exception makes fut.result() raise: the finally clause
\* prints the newline and main ends with the exception.
Collect(f) ==
  /\ pc = "collect"
  /\ f \in NextYield
  /\ yielded' = yielded \cup {f}
  /\ snapshot' = snapshot \ {f}
  /\ completed' = Without(completed, f)
  /\ IF future[f].raised
       THEN /\ pc' = "crashed"
            /\ term' = finally_newline(term)
            /\ UNCHANGED tally
       ELSE LET res == future[f].result
            IN  /\ checked' = checked + 1
                /\ ok_count' = IF CountsOk(res) THEN ok_count + 1 ELSE ok_count
                /\ bad_count' = IF CountsBad(res) THEN bad_count + 1 ELSE bad_count
                /\ damaged_list' = IF CountsBad(res)
                                     THEN Append(damaged_list, res)
                                     ELSE damaged_list
                /\ term' = "partial"
                /\ UNCHANGED pc
  /\ UNCHANGED <<cfgvars, submitted, queue, task, future, summary, listing,
                 ghost>>

\* main, lines 319-332: KeyboardInterrupt reaches the main thread while it is
\* in the try block.  The progress line of an iteration is printed at its
\* end, so the terminal shows the counters of the last whole iteration.  The
\* finally clause prints the newline, the with block waits for the audits
\* that were submitted, and main ends with the exception: no summary.
Interrupt ==
  /\ pc \in {"as_completed", "collect"}
  /\ pc' = "aborted"
  /\ term' = finally_newline(term)
  /\ UNCHANGED <<cfgvars, submitted, queue, task, future, completed, snapshot,
                 yielded, tally, summary, listing, ghost>>

\* main, line 344: one line of the list of damaged files
DamagedLine(r) == [path |-> r.path, reason |-> r.reason]

\* a report that lists the damaged files by path
ListedByPath(dl) ==
  LET paths == {dl[i].path : i \in DOMAIN dl}
      nth[i \in DOMAIN dl] ==
        CHOOSE r \in {dl[j] : j \in DOMAIN dl} :
          Cardinality({p \in paths : p < r.path}) = i - 1
  IN  [i \in DOMAIN dl |-> DamagedLine(nth[i])]
\* main, lines 340-344
Listed(dl) == [i \in DOMAIN dl |-> DamagedLine(dl[i])]

\* main, lines 331-344: every future was yielded; the finally clause prints
\* the newline, the pool is shut down, the summary is printed and, with
\* --list-damaged, one line per entry of damaged_list.
Report ==
  /\ pc = "collect"
  /\ yielded = Files
  /\ term' = finally_newline(term)
  /\ summary' = [printed |-> TRUE, total |-> total, ok |-> ok_count,
                 bad |-> bad_count]
  /\ listing' = IF list_damaged /\ damaged_list # <<>>
                  THEN Listed(damaged_list)
                  ELSE <<>>
  /\ pc' = "done"
  /\ UNCHANGED <<cfgvars, submitted, queue, task, future, completed, snapshot,
                 yielded, tally, ghost>>

\* ------------------------------------------------------------- specifications
Worker ==
  \/ \E f \in Files : StartAudit(f)
  \/ \E f \in Files : check_fast_ffprobe(f)
  \/ \E f \in Files : check_fast_exiftool(f)
  \/ \E f \in Files : check_decode_first_frame(f)
  \/ \E f \in Files : check_full_decode(f)
  \/ \E f \in Files : Fault(f)

Main ==
  \/ Start
  \/ Submit
  \/ as_completed
  \/ \E f \in Files : Collect(f)
  \/ Report

\* A run over up to MaxFiles files (each an intact image, a corrupt image or
\* an unsupported file) with up to MaxWorkers workers, with the three tools
\* installed, or with none of them (no tool then looks at a file, and its
\* condition plays no part).
RunKinds ==
  {[suffix |-> ".JPG", condition |-> c] : c \in {"intact", "corrupt"}}
    \cup {[suffix |-> ".txt", condition |-> "intact"]}
UnprobedKinds == {[suffix |-> sfx, condition |-> "intact"] : sfx \in {".JPG", ".txt"}}

AnyTools == BOOLEAN \X BOOLEAN \X BOOLEAN
AllTools == {<<TRUE, TRUE, TRUE>>}
NoTools == {<<FALSE, FALSE, FALSE>>}

ToolsInit ==
  InitWith(Modes, 0..MaxFiles, 1..MaxWorkers, {NoIncludeExts}, {FALSE},
           AllTools, RunKinds)
Init ==
  \/ ToolsInit
  \/ InitWith(Modes, 1..MaxFiles, 1..MaxWorkers, {NoIncludeExts}, {FALSE},
              NoTools, UnprobedKinds)
Next == Main \/ Worker
Spec == Init /\ [][Next]_vars

\* The run under fair scheduling: while the main thread or a worker thread
\* can take a step, one of them does; every external process exits or is
\* timed out, so a worker waiting for one can take its step.  Nothing makes
\* the operator interrupt the run.  The three tools are installed.
LiveSpec == ToolsInit /\ [][Next]_vars /\ WF_vars(Next)

\* One file and one worker, with every behaviour of the external processes.
AuditKinds == {[suffix |-> sfx, condition |-> "any"] : sfx \in Suffixes}

AuditInit ==
  InitWith(Modes, {1}, {1}, IncludeExtsArgs, {FALSE}, AnyTools, AuditKinds)
AuditSpec == AuditInit /\ [][Next]_vars

\* A run the operator may interrupt, with and without --list-damaged, with
\* the three tools installed.
AbortInit ==
  InitWith(Modes, 0..MaxFiles, 1..MaxWorkers, {NoIncludeExts}, BOOLEAN,
           AllTools, RunKinds)
NextOrInterrupt == Next \/ Interrupt
AbortSpec == AbortInit /\ [][NextOrInterrupt]_vars

\* ------------------------------------------------------------- claims
\* What the claims speak of, read off the trace of run() calls and the
\* futures rather than off the locals of audit_one.
Done(f) == future[f].done
Res(f) == future[f].result

\* The suffix is (case-insensitively) in neither active set.
UnsupportedExt(f) == lower(all_files[f]) \notin (image_exts \cup video_exts)

ProbeTools == {"ffprobe", "exiftool"}
Calls(f, tools) == {i \in DOMAIN trace[f] : trace[f][i].tool \in tools}

\* Exit status zero, no error text but whitespace, and for exiftool no
\* "Error" in its output.
CleanRun(c) ==
  /\ c.ret.rc = 0
  /\ strip(c.ret.err) = <<>>
  /\ c.tool = "exiftool" => ~Contains(c.ret.out, ErrorToken)

\* The same with a literally empty error stream.
CleanRunEmptyErr(c) ==
  /\ c.ret.rc = 0
  /\ c.ret.err = <<>>
  /\ c.tool = "exiftool" => ~Contains(c.ret.out, ErrorToken)

ProbePassed(f) == \E i \in Calls(f, ProbeTools) : CleanRun(trace[f][i])
FirstFramePassed(f) ==
  \E i \in Calls(f, {"ffmpeg[first-frame]"}) : CleanRun(trace[f][i])
FullDecodePassed(f) ==
  \E i \in Calls(f, {"ffmpeg[full-decode]"}) : CleanRun(trace[f][i])

\* C1: a file whose extension is not in the active image/video extension
\* set gets status 'skipped' with passed = true in every mode and with every
\* tool availability, and no external process is run for it.
C1_UnsupportedIsSkipped ==
  \A f \in Files :
    (Done(f) /\ UnsupportedExt(f)) =>
      /\ ~future[f].raised
      /\ Res(f).status = "skipped"
      /\ Res(f).ok
      /\ trace[f] = <<>>
      /\ f \notin faulted

\* C1 happens: a .mp4 file under --include-exts txt was skipped in slow mode
\* with all three tools present.
C1_Witness ==
  \E f \in Files :
    /\ Done(f) /\ UnsupportedExt(f)
    /\ all_files[f] = ".mp4" /\ include_exts # NoIncludeExts
    /\ mode = "slow" /\ HAS_FFPROBE /\ HAS_FFMPEG /\ HAS_EXIFTOOL
    /\ Res(f).status = "skipped"

\* C2 as stated: in fast mode passed is true iff some available probe tool
\* exited with status zero and an EMPTY error stream (exiftool: and no
\* 'Error' in its output).  Stated for the audits that returned a verdict.
C2_Original ==
  \A f \in Files :
    (Done(f) /\ mode = "fast" /\ ~UnsupportedExt(f) /\ f \notin faulted) =>
      (Res(f).ok <=> \E i \in Calls(f, ProbeTools) : CleanRunEmptyErr(trace[f][i]))

\* C2 as amended: in fast mode, for an audit that returned a verdict, passed
\* is true iff some available probe tool exited with status zero and an error
\* stream that is empty after stripping whitespace (exiftool: and no 'Error'
\* in its output); status is 'ok' or 'damaged' accordingly; with neither
\* ffprobe nor exiftool available passed is false.
C2_FastPassIffCleanProbe ==
  \A f \in Files :
    (Done(f) /\ mode = "fast" /\ ~UnsupportedExt(f) /\ f \notin faulted) =>
      /\ Res(f).ok <=> ProbePassed(f)
      /\ Res(f).status = IF ProbePassed(f) THEN "ok" ELSE "damaged"
      /\ (~HAS_FFPROBE /\ ~HAS_EXIFTOOL) => ~Res(f).ok
      /\ Calls(f, ProbeTools) = DOMAIN trace[f]

\* C2 happens: fast mode passed a file on a whitespace-only error stream of
\* ffprobe while exiftool failed.
C2_Witness ==
  \E f \in Files :
    /\ Done(f) /\ mode = "fast" /\ Res(f).ok
    /\ Len(trace[f]) = 2
    /\ trace[f][1].ret.rc = 0 /\ trace[f][1].ret.err = <<"\n">>
    /\ ~CleanRun(trace[f][2])

\* C3: in medium mode passed is true exactly when both the probe and the
\* first-frame decode succeeded; a file whose probe passes and whose
\* first-frame decode fails is 'damaged', though fast mode passes on that
\* probe result.
C3_MediumIsAnd ==
  \A f \in Files :
    (Done(f) /\ mode = "medium" /\ ~UnsupportedExt(f)) =>
      /\ ~future[f].raised
      /\ Res(f).ok <=> (ProbePassed(f) /\ FirstFramePassed(f))
      /\ Res(f).status = "ok" <=> Res(f).ok
      /\ (f \notin faulted /\ ProbePassed(f) /\ ~FirstFramePassed(f)) =>
           /\ Res(f).status = "damaged"
           /\ FastResult(f, check_fast_ok(<<ProbePassed(f)>>), <<>>, "fast").status = "ok"

\* C3 happens: the probe passed, ffmpeg ran and failed on the first frame,
\* and the verdict is damaged.
C3_Witness ==
  \E f \in Files :
    /\ Done(f) /\ mode = "medium" /\ ProbePassed(f)
    /\ Calls(f, {"ffmpeg[first-frame]"}) # {}
    /\ ~FirstFramePassed(f)
    /\ Res(f).status = "damaged"

C5_TallyInvariant ==
  /\ checked = ok_count + bad_count
  /\ checked <= total
  /\ checked = Cardinality(yielded)
  /\ pc = "done" => checked = total

\* C5 happens: a run over two files ended with one file counted ok (a skipped
\* one) and one counted bad.
C5_Witness ==
  /\ pc = "done" /\ total >= 2
  /\ ok_count >= 1 /\ bad_count >= 1
  /\ \E f \in Files : Res(f).status = "skipped"

IsOkVerdict(f) == Res(f).status \in {"ok", "skipped"}
IsBadVerdict(f) == Res(f).status \in {"damaged", "error"}

\* C6: whatever the interleaving and the number of workers, every file is
\* audited once and counted once: at every moment the ok counter is the number
\* of yielded files with verdict ok or skipped and the bad counter the number
\* with verdict damaged or error, at the end of the run every file has been
\* yielded, and no step of a worker changes the counters or the damaged list.
C6_ExactCounts ==
  /\ [](/\ \A f \in Files : audited[f] <= 1
        /\ \A f \in Files : Done(f) => audited[f] = 1
        /\ ok_count = Cardinality({f \in yielded : IsOkVerdict(f)})
        /\ bad_count = Cardinality({f \in yielded : IsBadVerdict(f)})
        /\ Len(damaged_list) = bad_count
        /\ pc = "done" =>
             /\ yielded = Files
             /\ \A f \in Files : audited[f] = 1
             /\ ok_count = Cardinality({f \in Files : IsOkVerdict(f)})
             /\ bad_count = Cardinality({f \in Files : IsBadVerdict(f)}))
  /\ [][Worker => UNCHANGED <<tally, yielded>>]_vars

\* C6 happens: with two workers the second file finished first and was
\* counted as bad while the audit of the first file was still running.
C6_Witness ==
  /\ pc = "collect" /\ total = 2 /\ workers = 2
  /\ yielded = {2} /\ task[1].st \in RunningStates
  /\ checked = 1 /\ bad_count = 1 /\ Len(damaged_list) = 1

TimedOutCalls(f) == {i \in DOMAIN trace[f] : trace[f][i].beh.kind = "timeout"}

\* C7 as stated: when an external process of a file exceeded the timeout,
\* run() classified it as timeout and the verdict of the file is damaged or
\* error, in every mode and whichever process it was.
C7_Original ==
  \A f \in Files :
    (Done(f) /\ TimedOutCalls(f) # {}) =>
      /\ \A i \in TimedOutCalls(f) : trace[f][i].ret.rc = 124
      /\ Res(f).status \in {"damaged", "error"}

\* The timed-out process decides the verdict: the full decode in slow mode,
\* the first-frame decode in medium mode, or, in fast and medium mode, a probe
\* tool when no other probe tool reported clean.
Decisive(f, i) ==
  LET tool == trace[f][i].tool
  IN  CASE mode = "slow" -> tool = "ffmpeg[full-decode]"
        [] mode = "medium" ->
             \/ tool = "ffmpeg[first-frame]"
             \/ tool \in ProbeTools /\ ~ProbePassed(f)
        [] OTHER -> tool \in ProbeTools /\ ~ProbePassed(f)

\* C7 as amended: a process that exceeded the timeout is classified as
\* timeout (return code 124, a non-empty diagnostic) and never counts as a
\* clean run; the verdict of the file is damaged or error whenever that
\* process decides the verdict of the mode (the full decode in slow, the
\* first-frame decode in medium, a probe tool in fast or medium when no other
\* probe tool reported clean).
C7_TimeoutNeverClean ==
  \A f \in Files :
    Done(f) =>
      \A i \in TimedOutCalls(f) :
        /\ trace[f][i].ret.rc = 124
        /\ trace[f][i].ret.err = TimeoutText
        /\ ~CleanRun(trace[f][i])
        /\ Decisive(f, i) => Res(f).status \in {"damaged", "error"}

\* C7 happens: in slow mode the probe and the first-frame decode were clean,
\* the full decode timed out and the file is damaged.
C7_Witness ==
  \E f \in Files :
    /\ Done(f) /\ mode = "slow" /\ ProbePassed(f) /\ FirstFramePassed(f)
    /\ \E i \in TimedOutCalls(f) : trace[f][i].tool = "ffmpeg[full-decode]"
    /\ Res(f).status = "damaged"

\* C8: an exception raised inside one file's audit becomes a verdict with
\* status 'error' and passed = false; no future ever holds an exception, so
\* the collection loop never raises; the step leaves the other files' audits,
\* their futures and the counters as they were, and the run still counts
\* every file.
C8_FaultsContained ==
  /\ [](/\ \A f \in Files : Done(f) => ~future[f].raised
        /\ \A f \in faulted :
             Done(f) /\ Res(f).status = "error" /\ ~Res(f).ok /\ Res(f).path = f
        /\ \A f \in Files : (Done(f) /\ Res(f).status = "error") => f \in faulted
        /\ pc # "crashed"
        /\ pc = "done" => (checked = total /\ bad_count >= Cardinality(faulted)))
  /\ [][\A f \in Files :
          (f \in faulted' /\ f \notin faulted) =>
            /\ \A g \in Files \ {f} : task'[g] = task[g] /\ future'[g] = future[g]
            /\ UNCHANGED <<tally, yielded, pc>>]_vars

\* C8 happens: one of two files raised, the other got 'ok', and the run ended
\* with both counted.
C8_Witness ==
  /\ pc = "done" /\ total = 2
  /\ Cardinality(faulted) = 1
  /\ \E g \in Files \ faulted : Res(g).status = "ok"
  /\ ok_count = 1 /\ bad_count = 1

NoToolAvailable == ~HAS_FFPROBE /\ ~HAS_FFMPEG /\ ~HAS_EXIFTOOL

\* C11: with none of the three tools available, in every mode, every
\* supported file whose audit raised nothing unexpected gets status 'damaged'
\* with passed = false, no external process is run for any file, an
\* unsupported file still gets 'skipped' with passed = true, no future holds
\* an exception and the collection loop does not raise; the run ends with
\* every file counted.
C11_NoToolsDegrade ==
  NoToolAvailable =>
    /\ \A f \in Files : trace[f] = <<>>
    /\ \A f \in Files :
         Done(f) =>
           /\ ~future[f].raised
           /\ (~UnsupportedExt(f) /\ f \notin faulted) =>
                (Res(f).status = "damaged" /\ ~Res(f).ok)
           /\ UnsupportedExt(f) => (Res(f).status = "skipped" /\ Res(f).ok)
    /\ pc # "crashed"
    /\ pc = "done" =>
         /\ checked = total
         /\ bad_count = Cardinality({f \in Files : ~UnsupportedExt(f)})

\* C11 happens: without any tool a slow run over an image and an unsupported
\* file ended with the image damaged and the other file skipped.
C11_Witness ==
  /\ NoToolAvailable /\ mode = "slow" /\ pc = "done" /\ total = 2
  /\ \E f \in Files : ~UnsupportedExt(f) /\ Res(f).status = "damaged"
  /\ \E f \in Files : UnsupportedExt(f) /\ Res(f).status = "skipped"
  /\ bad_count = 1 /\ ok_count = 1

\* The full decode of f ended as its first-frame decode did (for a single
\* frame the two decode the same data): both ran and returned the same, or
\* ffmpeg is unavailable and neither ran.
SameDecodeOutcome(f) ==
  LET first == Calls(f, {"ffmpeg[first-frame]"})
      full == Calls(f, {"ffmpeg[full-decode]"})
  IN  IF first = {} \/ full = {}
        THEN first = {} /\ full = {}
        ELSE \A i \in first, j \in full : trace[f][i].ret = trace[f][j].ret

\* What medium mode returns on the evaluator outcomes recorded for f.
MediumOn(f) ==
  MediumResult(f, ProbePassed(f), <<>>, FirstFramePassed(f), <<>>, "medium")

\* C12 as stated: for an image file whose full decode has the outcome of its
\* first-frame decode, slow mode returns the passed value and the status
\* that medium mode returns on the same evaluator outcomes.
C12_Original ==
  \A f \in Files :
    (/\ Done(f) /\ mode = "slow" /\ f \notin faulted
     /\ is_image(all_files[f], image_exts)
     /\ SameDecodeOutcome(f)) =>
      /\ Res(f).ok = MediumOn(f).ok
      /\ Res(f).status = MediumOn(f).status

\* The evaluators of each tier as the claim lists them.
TierEvaluators(m) ==
  CASE m = "fast" -> <<"check_fast">>
    [] m = "medium" -> <<"check_fast", "check_decode_first_frame">>
    [] OTHER -> <<"check_fast", "check_decode_first_frame", "check_full_decode">>

IsPrefix(a, b) == Len(a) <= Len(b) /\ a = SubSeq(b, 1, Len(a))

\* C13: at every moment the evaluators an audit has called are a prefix of
\* its tier's list (probe; probe, first-frame decode; probe, first-frame
\* decode, full decode), so each is called at most once and in that order; an
\* audit of a supported file that returned its verdict has called all of
\* them, whatever the earlier ones returned; an unsupported file has none
\* called; and each tier's list begins with the list of the tier before.
C13_EvaluatorsInOrder ==
  /\ \A f \in Files :
       /\ IsPrefix(evaluated[f], TierEvaluators(mode))
       /\ UnsupportedExt(f) => evaluated[f] = <<>>
       /\ (Done(f) /\ ~UnsupportedExt(f) /\ f \notin faulted) =>
            evaluated[f] = TierEvaluators(mode)
  /\ IsPrefix(TierEvaluators("fast"), TierEvaluators("medium"))
  /\ IsPrefix(TierEvaluators("medium"), TierEvaluators("slow"))

\* C13 happens: in slow mode both probe tools ran and failed, the first-frame
\* decode ran and failed, and the full decode was still called.
C13_Witness ==
  \E f \in Files :
    /\ Done(f) /\ mode = "slow" /\ f \notin faulted
    /\ Cardinality(Calls(f, ProbeTools)) = 2 /\ ~ProbePassed(f)
    /\ Calls(f, {"ffmpeg[first-frame]"}) # {} /\ ~FirstFramePassed(f)
    /\ Calls(f, {"ffmpeg[full-decode]"}) # {}
    /\ evaluated[f] = <<"check_fast", "check_decode_first_frame", "check_full_decode">>

\* C14: every result audit_one returns has status 'skipped' only for a file
\* with an unsupported extension, has passed = false whenever its status is
\* 'damaged' or 'error', and carries the mode the run was asked for (and the
\* path of its file).
C14_VerdictWellFormed ==
  \A f \in Files :
    Done(f) =>
      /\ ~future[f].raised
      /\ Res(f).status \in {"ok", "damaged", "error", "skipped"}
      /\ Res(f).status = "skipped" => UnsupportedExt(f)
      /\ Res(f).status \in {"damaged", "error"} => ~Res(f).ok
      /\ Res(f).mode = mode
      /\ Res(f).path = f

\* C14 happens: a fast run returned an 'error' result, with passed = false
\* and mode 'fast', for a supported file.
C14_Witness ==
  \E f \in Files :
    /\ Done(f) /\ mode = "fast" /\ ~UnsupportedExt(f)
    /\ Res(f).status = "error" /\ ~Res(f).ok /\ Res(f).mode = "fast"

\* The files whose result the step collects (at most one).
Collected == yielded' \ yielded

\* g finished before f, and neither has been yielded yet.
FinishedBefore(g, f) ==
  \E i, j \in DOMAIN completed : i < j /\ completed[i] = g /\ completed[j] = f

\* The damaged list holds the results with status 'damaged' or 'error'
\* collected so far, each once, and is as long as the bad counter says; the
\* report, once printed, has one line per entry in the order of the list if
\* --list-damaged is set and no line otherwise.
DamagedListState ==
  /\ Len(damaged_list) = bad_count
  /\ \A i \in DOMAIN damaged_list :
       /\ damaged_list[i].path \in yielded
       /\ damaged_list[i] = Res(damaged_list[i].path)
       /\ IsBadVerdict(damaged_list[i].path)
  /\ \A i, j \in DOMAIN damaged_list :
       damaged_list[i].path = damaged_list[j].path => i = j
  /\ \A f \in yielded :
       IsBadVerdict(f) => \E i \in DOMAIN damaged_list : damaged_list[i].path = f
  /\ listing = IF pc = "done" /\ list_damaged
                 THEN [i \in DOMAIN damaged_list |->
                         [path |-> damaged_list[i].path,
                          reason |-> damaged_list[i].reason]]
                 ELSE <<>>

\* A step appends to the damaged list the bad result it collects and does
\* nothing else to the list.
AppendsCollected ==
  IF \E f \in Collected : IsBadVerdict(f)
    THEN \E f \in Collected : damaged_list' = Append(damaged_list, Res(f))
    ELSE damaged_list' = damaged_list

\* A bad result is collected only when every bad result that finished
\* before it has been collected.
InCompletionOrder ==
  \A f \in Collected :
    IsBadVerdict(f) => ~\E g \in Files : FinishedBefore(g, f) /\ IsBadVerdict(g)

\* C15 as stated: the damaged list is append-only and holds exactly the bad
\* results collected so far, each once, in the order their audits completed;
\* its length is the bad counter; with --list-damaged the report prints one
\* line per entry in that order.
C15_Original ==
  /\ []DamagedListState
  /\ [][AppendsCollected /\ InCompletionOrder]_vars

\* C15 as amended: the same, with the order being the order in which the
\* collection loop received the results from as_completed, which is the
\* order the audits finished except for the results already finished when
\* the loop starts.
C15_DamagedListInCollectionOrder ==
  /\ []DamagedListState
  /\ [][AppendsCollected]_vars

\* C15 happens: with --list-damaged a run over two bad files collected the
\* second file first and listed the two in that order.
C15_Witness ==
  /\ pc = "done" /\ list_damaged /\ total = 2 /\ bad_count = 2
  /\ damaged_list = <<Res(2), Res(1)>>
  /\ Len(listing) = 2 /\ listing[1].path = 2 /\ listing[2].path = 1

\* The audits in progress: audit_one was entered and has not returned.
InProgress == {f \in Files : task[f].st \notin {"new", "queued", "done"}}

\* The audits that are at a run() call, that is, have an external process.
AtProcess ==
  {f \in Files :
     \/ task[f].st = "ffprobe" /\ HAS_FFPROBE
     \/ task[f].st = "exiftool" /\ HAS_EXIFTOOL
     \/ task[f].st \in {"first_frame", "full_decode"} /\ HAS_FFMPEG}

\* C16: at every moment, also after an interrupt, at most `workers` audits
\* are in progress (each occupies one worker thread of the pool from the
\* moment it is taken from the queue until it returns, and no file is audited
\* twice); an audit is at one evaluator, hence at one run() call, at a time, so
\* the audits that have an external process are among those in progress and
\* are at most `workers`; and one step starts at most one audit and makes at
\* most one run() call.
C16_BoundedConcurrency ==
  /\ [](/\ Cardinality(InProgress) <= workers
        /\ AtProcess \subseteq InProgress
        /\ Cardinality(AtProcess) <= workers
        /\ \A f \in Files : audited[f] <= 1
        /\ \A f \in InProgress : audited[f] = 1 /\ ~Done(f))
  /\ [][/\ Cardinality(InProgress' \ InProgress) <= 1
        /\ Cardinality({f \in Files : trace'[f] # trace[f]}) <= 1
        /\ \A f \in Files : Len(trace'[f]) <= Len(trace[f]) + 1]_vars

\* C16 happens: with one worker, after an interrupt, the audit of the first
\* file is at its full decode and the second file still waits in the queue.
C16_Witness ==
  /\ workers = 1 /\ total = 2 /\ pc = "aborted"
  /\ task[1].st = "full_decode" /\ queue = <<2>>
  /\ AtProcess = {1}

InCollectionLoop == pc \in {"as_completed", "collect"}

\* C17: whenever main leaves the collection loop, by an interrupt after any
\* number of collected results or by getting to its end, the step that
\* leaves it prints the newline, so the terminal is not left in a partial
\* progress line; after an interrupt nothing more is printed and no result
\* is counted.
C17_NewlineOnAbort ==
  /\ [](pc \in {"aborted", "done", "crashed"} => term = "clean")
  /\ [][(InCollectionLoop /\ ~InCollectionLoop') => term' = "clean"]_vars
  /\ [][pc = "aborted" => UNCHANGED <<pc, term, tally, yielded, summary, listing>>]_vars

\* C17 happens: a run over two files was interrupted after one result had
\* been collected and its progress line printed; the line was ended.
C17_Witness ==
  /\ pc = "aborted" /\ total = 2 /\ checked = 1 /\ Cardinality(yielded) = 1
  /\ term = "clean" /\ ~summary.printed

\* The class of what run() returned, read off its return code.
Outcome(r) ==
  CASE r.rc = 0 -> "success"
    [] r.rc = 124 -> "timeout"
    [] r.rc = 125 -> "launch-error"
    [] OTHER -> "non-zero exit"

IsText(t) == \A i \in DOMAIN t : t[i] # InvalidByte

\* C18: every run() call returned a triple (return code, output text, error
\* text), whatever the process did and whatever bytes it wrote; a process that
\* was still running at the timeout gives return code 124 (class timeout)
\* with a diagnostic, one that could not be launched gives 125 (class
\* launch-error) with a diagnostic, neither is of class success nor counts
\* as a clean run; a process that exited gives its own return code and its
\* decoded streams.
C18_RunClassifies ==
  \A f \in Files : \A i \in DOMAIN trace[f] :
    LET c == trace[f][i]
    IN  /\ DOMAIN c.ret = {"rc", "out", "err"}
        /\ c.ret.rc \in Int /\ IsText(c.ret.out) /\ IsText(c.ret.err)
        /\ c.beh.kind = "timeout" =>
             (Outcome(c.ret) = "timeout" /\ c.ret.err = TimeoutText)
        /\ c.beh.kind = "oserror" =>
             (Outcome(c.ret) = "launch-error" /\ c.ret.err = ExceptionText)
        /\ c.beh.kind # "exit" => (Outcome(c.ret) # "success" /\ ~CleanRun(c))
        /\ c.beh.kind = "exit" =>
             /\ c.ret.rc = c.beh.rc
             /\ Len(c.ret.out) = Len(c.beh.stdout)
             /\ Len(c.ret.err) = Len(c.beh.stderr)

\* C18 happens: in one slow audit ffprobe timed out, exiftool could not be
\* launched, the first-frame decode exited with 1 and undecodable bytes on
\* stderr, and the full decode exited with 0.
C18_Witness ==
  \E f \in Files :
    /\ Done(f) /\ Len(trace[f]) = 4
    /\ Outcome(trace[f][1].ret) = "timeout"
    /\ Outcome(trace[f][2].ret) = "launch-error"
    /\ Outcome(trace[f][3].ret) = "non-zero exit"
    /\ trace[f][3].beh.stderr = <<InvalidByte>>
    /\ Outcome(trace[f][4].ret) = "success"

\* The parts of the diagnostics in the result of f, one per tool.
DiagParts(f) ==
  LET r == Res(f).reason
  IN  {r.fast[i] : i \in DOMAIN r.fast}
        \cup {r.first_frame[i] : i \in DOMAIN r.first_frame}
        \cup {r.full[i] : i \in DOMAIN r.full}

\* C19 as stated: in the result of an audit, the diagnostic of every tool
\* that was run (ffprobe and exiftool in check_fast, ffmpeg in the two decode
\* checks) shows the exit status of its process and the length of its
\* captured error text, with the values run() returned.
C19_Original ==
  \A f \in Files :
    (Done(f) /\ f \notin faulted) =>
      /\ \A i \in DOMAIN trace[f] :
           \E d \in DiagParts(f) :
             /\ d.tool = trace[f][i].tool
             /\ d.rc = trace[f][i].ret.rc
      /\ \A d \in DiagParts(f) :
           "unavailable" \notin d.shows => {"rc", "err_len"} \subseteq d.shows

\* The processes of each tier as the claim counts them: 2, 3 and 4.
TierProcesses(m) ==
  CASE m = "fast" -> <<"ffprobe", "exiftool">>
    [] m = "medium" -> <<"ffprobe", "exiftool", "ffmpeg[first-frame]">>
    [] OTHER ->
         <<"ffprobe", "exiftool", "ffmpeg[first-frame]", "ffmpeg[full-decode]">>

Available(tool) ==
  CASE tool = "ffprobe" -> HAS_FFPROBE
    [] tool = "exiftool" -> HAS_EXIFTOOL
    [] OTHER -> HAS_FFMPEG

ToolsRun(f) == [i \in DOMAIN trace[f] |-> trace[f][i].tool]

====
